---- MODULE Spec2Model ----
(***************************************************************************)
(* Ticket/commit correlation engine of the jira-git MCP server:            *)
(* DynamicProjectTracker.analyze_project and the functions it calls        *)
(* (project_tracker.py), and the sessions that drive it (app.py,           *)
(* batch_analyzer.py).  The ticket tracker, the code host and the          *)
(* classification oracle are collaborators whose answers are chosen        *)
(* nondeterministically from finite sets.                                  *)
(***************************************************************************)
EXTENDS Integers, Sequences, FiniteSets, TLC

(* ------------------------------ bounds --------------------------------- *)
\* most tickets the tracker returns for one query
MaxTickets == 2
\* most elements in a JSON array answered by the oracle
MaxResults == 2
\* most repositories in one call of get_commits_for_repos
MaxRepos == 2
\* most projects a batch run visits, and most lines of a project listing
MaxProjects == 2

(* ------------------------------ strings -------------------------------- *)
\* Strings that take part in slicing, lower-casing or substring tests are
\* given by their characters.
Chars ==
    ("" :> <<>>) @@
    ("a@x.io" :> <<"a", "@", "x", ".", "i", "o">>) @@
    ("A@X.IO" :> <<"A", "@", "X", ".", "I", "O">>) @@
    ("b@y.io" :> <<"b", "@", "y", ".", "i", "o">>) @@
    ("1a2b3c4d5e" :> <<"1", "a", "2", "b", "3", "c", "4", "d", "5", "e">>) @@
    ("1a2b3c4" :> <<"1", "a", "2", "b", "3", "c", "4">>) @@
    ("9f8e7d6c5b" :> <<"9", "f", "8", "e", "7", "d", "6", "c", "5", "b">>) @@
    ("9f8e7d6" :> <<"9", "f", "8", "e", "7", "d", "6">>) @@
    ("fffffff" :> <<"f", "f", "f", "f", "f", "f", "f">>) @@
    ("d6" :> <<"d", "6">>) @@
    (".io" :> <<".", "i", "o">>)

\* the string with the given characters
Str(cs) == CHOOSE s \in DOMAIN Chars : Chars[s] = cs

\* str.lower() on one character
LowerChar(c) ==
    CASE c = "A" -> "a"
      [] c = "X" -> "x"
      [] c = "I" -> "i"
      [] c = "O" -> "o"
      [] OTHER -> c

\* s.lower()
Lower(s) == Str([i \in 1..Len(Chars[s]) |-> LowerChar(Chars[s][i])])

\* s[:n]
Prefix(s, n) ==
    Str(SubSeq(Chars[s], 1, IF Len(Chars[s]) < n THEN Len(Chars[s]) ELSE n))

\* Python's  a in b  on two strings
Contains(a, b) ==
    \E i \in 0..(Len(Chars[b]) - Len(Chars[a])) :
        SubSeq(Chars[b], i + 1, i + Len(Chars[a])) = Chars[a]

\* length of the short sha, sha[:7]
ShortShaLen == 7

(* --------------------------- Repository Map ---------------------------- *)
JIRA_TO_GITHUB_MAP ==
    ("AL" :> <<"InfiniumDevIO/Ample-Frontend", "InfiniumDevIO/Ample-Backend">>) @@
    ("BV3" :> <<"InfiniumDevIO/BlueValley_Conversational_AI_Demo">>) @@
    ("CB" :> <<"InfiniumDevIO/Casagrand-Banglore">>) @@
    ("CAS" :> <<"InfiniumDevIO/Casagrand_Backend", "InfiniumDevIO/Casasgrand",
                "InfiniumDevIO/casagrand-blr-backend">>) @@
    ("C3" :> <<"InfiniumDevIO/Centroid">>) @@
    ("CEN" :> <<"InfiniumDevIO/Century">>) @@
    ("CE" :> <<"InfiniumDevIO/Century">>) @@
    ("CXDT2" :> <<"InfiniumDevIO/circle-design-frontend",
                  "InfiniumDevIO/starter-digital-tool-premium">>) @@
    ("D3" :> <<"InfiniumDevIO/DRA">>) @@
    ("DI" :> <<"InfiniumDevIO/DRA-Backend">>) @@
    ("GMM" :> <<"InfiniumDevIO/Million_minds", "InfiniumDevIO/Million_Minds-Backend">>) @@
    ("GERA" :> <<"InfiniumDevIO/Gera-Frontend", "InfiniumDevIO/Gera-Backend">>) @@
    ("G3" :> <<"InfiniumDevIO/Gera-360-Viewer">>) @@
    ("KP" :> <<"InfiniumDevIO/Kolte-Patil">>) @@
    ("PRIM" :> <<"InfiniumDevIO/Primarc", "InfiniumDevIO/Primarc-Backend">>) @@
    ("RM" :> <<"InfiniumDevIO/Rajyash">>) @@
    ("RAT" :> <<"InfiniumDevIO/Ratna">>) @@
    ("RAT3D" :> <<"InfiniumDevIO/Ratna">>) @@
    ("SC" :> <<"InfiniumDevIO/Centroid">>) @@
    ("SKYI" :> <<"InfiniumDevIO/SkyI", "InfiniumDevIO/skyi-Backend">>)

\* JIRA_TO_GITHUB_MAP.keys(), in the order of the dict literal
MapKeys ==
    << "AL", "BV3", "CB", "CAS", "C3", "CEN", "CE", "CXDT2", "D3", "DI", "GMM", "GERA",
       "G3", "KP", "PRIM", "RM", "RAT", "RAT3D", "SC", "SKYI" >>

\* JIRA_TO_GITHUB_MAP.get(project_key, [])
MapGet(project_key) ==
    IF project_key \in DOMAIN JIRA_TO_GITHUB_MAP
    THEN JIRA_TO_GITHUB_MAP[project_key]
    ELSE <<>>

\* full_name.split('/') for the repository identifiers of the projects analysed
SplitSlash ==
    ("InfiniumDevIO/Ample-Frontend" :> <<"InfiniumDevIO", "Ample-Frontend">>) @@
    ("InfiniumDevIO/Ample-Backend" :> <<"InfiniumDevIO", "Ample-Backend">>) @@
    ("InfiniumDevIO/BlueValley_Conversational_AI_Demo" :>
        <<"InfiniumDevIO", "BlueValley_Conversational_AI_Demo">>) @@
    ("Ample-Backend" :> <<"Ample-Backend">>) @@
    ("InfiniumDevIO/Ample/Backend" :> <<"InfiniumDevIO", "Ample", "Backend">>)

\* project keys and status filters handed to analyze_project
ProjectKeys == {"AL", "BV3", "ZZ"}
StatusFilters == {"all", "active"}

(* ---------------------------- ticket tracker --------------------------- *)
TicketKeys == <<"T-1", "T-2", "T-3", "T-4">>

\* fields.assignee of a raw issue: absent, with an email, with a display name only
NoAssignee == [present |-> FALSE, emailAddress |-> "", displayName |-> ""]
Ann == [present |-> TRUE, emailAddress |-> "a@x.io", displayName |-> "Ann"]
Bob == [present |-> TRUE, emailAddress |-> "", displayName |-> "Bob"]
AssigneeInfos == {NoAssignee, Ann, Bob}

\* the issue lists the tracker can answer with: distinct keys, any assignees
IssueLists ==
    UNION {
        { [i \in 1..n |-> [key |-> TicketKeys[i], assignee |-> f[i]]] :
            f \in [1..n -> AssigneeInfos] } : n \in 0..MaxTickets }

\* what the parse step of get_project_issues_by_assignee ends with:
\* a dict holding the issues, or an exception
TrackerResponses ==
    { [kind |-> "dict", issues |-> l] : l \in IssueLists }
    \cup { [kind |-> "parse_error", issues |-> <<>>] }

\* the grouping key of one raw issue
AssigneeKey(assignee_info) ==
    IF assignee_info.present
    THEN IF assignee_info.emailAddress # ""
         THEN assignee_info.emailAddress
         ELSE assignee_info.displayName
    ELSE "Unassigned"

\* the normalized ticket; summary, status, issue_type and priority are carried
\* through unchanged and are not represented
IssueSummary(issue) ==
    [ key |-> issue.key,
      assignee |-> IF issue.assignee.present THEN issue.assignee.displayName
                   ELSE "Unassigned",
      assignee_email |-> IF issue.assignee.present THEN issue.assignee.emailAddress
                         ELSE "" ]

\* a variant of the grouping step that assigns instead of appending, so a
\* group keeps only the last ticket of its assignee
GroupAppend_Overwrite(groups, assignee_key, issue_summary) ==
    IF \E g \in 1..Len(groups) : groups[g].assignee = assignee_key
    THEN [ g \in 1..Len(groups) |->
             IF groups[g].assignee = assignee_key
             THEN [groups[g] EXCEPT !.issues = <<issue_summary>>]
             ELSE groups[g] ]
    ELSE Append(groups, [assignee |-> assignee_key, issues |-> <<issue_summary>>])

\* assignee_issues[assignee_key].append(issue_summary) on the ordered dict,
\* kept as a sequence of [assignee, issues] in insertion order
GroupAppend(groups, assignee_key, issue_summary) ==
    IF \E g \in 1..Len(groups) : groups[g].assignee = assignee_key
    THEN [ g \in 1..Len(groups) |->
             IF groups[g].assignee = assignee_key
             THEN [groups[g] EXCEPT !.issues = Append(@, issue_summary)]
             ELSE groups[g] ]
    ELSE Append(groups, [assignee |-> assignee_key, issues |-> <<issue_summary>>])

RECURSIVE GroupIssues(_, _)
GroupIssues(issues_list, groups) ==
    IF issues_list = <<>> THEN groups
    ELSE GroupIssues(Tail(issues_list),
                     GroupAppend(groups, AssigneeKey(Head(issues_list).assignee),
                                 IssueSummary(Head(issues_list))))

\* ---- the tracker's text table ----
\* A text is kept as the sequence of its tokens: the characters the parsers
\* look for (":", "[", "]", "(", ")") and the chunks of text between them.

\* sep in text
Has(tokens, sep) == \E i \in 1..Len(tokens) : tokens[i] = sep

\* text.split(sep)
RECURSIVE Split(_, _)
Split(tokens, sep) ==
    IF ~Has(tokens, sep) THEN <<tokens>>
    ELSE LET i == CHOOSE i \in 1..Len(tokens) :
                    /\ tokens[i] = sep
                    /\ \A j \in 1..(i - 1) : tokens[j] # sep
         IN  <<SubSeq(tokens, 1, i - 1)>> \o Split(SubSeq(tokens, i + 1, Len(tokens)), sep)

\* text.strip() read back as a string: the empty text or a single chunk
Text(tokens) ==
    CASE tokens = <<>> -> ""
      [] Len(tokens) = 1 -> tokens[1]

\* what the summary of a ticket looks like, as the pieces between and
\* including the characters the parser looks for:
\*   plain    a summary without any of these characters
\*   colon    a summary holding a colon
\*   paren    a summary holding a parenthesised word
\*   bracket  a summary starting with a bracketed tag
SummaryOf(form) ==
    CASE form = "plain" -> <<"fix">>
      [] form = "colon" -> <<"bug", ":", "fix">>
      [] form = "paren" -> <<"fix", "(", "ui", ")">>
      [] form = "bracket" -> <<"[", "ui", "]", "fix">>
      [] form = "broken" -> <<"fix">>

\* One line of the table as the tracker's server writes it,
\* "{key}: {summary} [{status}] ({assignee})", for a ticket with the given key,
\* summary form and assignee display name; form "broken" is a line that lost
\* its "key:" prefix.
TextLine(key, form, name) ==
    [ key |-> key, name |-> name, form |-> form,
      summary |-> SummaryOf(form), status |-> "Open",
      tokens |->
        (IF form = "broken" THEN <<>> ELSE <<key, ":">>)
        \o SummaryOf(form) \o <<"[", "Open", "]", "(", name, ")">> ]

LineForms == {"plain", "colon", "paren", "bracket", "broken"}
LineNames == {"Ann", "Unassigned"}

\* the first line of the table, "Found N issues:"
HeaderLine ==
    [ key |-> "", name |-> "", form |-> "header", summary |-> <<>>, status |-> "",
      tokens |-> <<"Found issues", ":">> ]

\* a one-line answer that is no table: form "none" is the server's "No issues
\* found matching the query.", form "error" an error message of the server
\* ("Error searching issues: ...") or of call_tool ("Error calling tool
\* search_issues: ...", "No content returned")
MessageLine(form, tokens) ==
    [ key |-> "", name |-> "", form |-> form, summary |-> <<>>, status |-> "",
      tokens |-> tokens ]

MessageLines ==
    { MessageLine("none", <<"No issues found matching the query.">>),
      MessageLine("error", <<"Error searching issues", ":", "boom">>),
      MessageLine("error", <<"Error calling tool search_issues", ":", "boom">>),
      MessageLine("error", <<"No content returned">>) }

\* the tables the tracker can answer with: the header and one line per ticket
TextTables ==
    UNION {
        { <<HeaderLine>> \o [i \in 1..n |-> TextLine(TicketKeys[i], f[i][1], f[i][2])] :
            f \in [1..n -> LineForms \X LineNames] } : n \in 0..MaxTickets }

\* the answers of the tracker that do not start with "{"
TextResponses ==
    { [kind |-> "text", issues |-> <<>>, lines |-> t] : t \in TextTables }
    \cup { [kind |-> "text", issues |-> <<>>, lines |-> <<m>>] : m \in MessageLines }

\* the issue _parse_jira_string_response builds from one line that holds ":"
ParseLine(line) ==
    LET parts == Split(line, ":")
        rest == parts[2]
        assignee_name == Text(Split(Split(rest, "(")[2], ")")[1])
    IN  [ key |-> Text(parts[1]),
          summary |-> IF Has(rest, "[") THEN Split(rest, "[")[1] ELSE rest,
          status |-> IF Has(rest, "[") /\ Has(rest, "]")
                     THEN Text(Split(Split(rest, "[")[2], "]")[1])
                     ELSE "Unknown",
          assignee |->
            IF Has(rest, "(") /\ Has(rest, ")") /\ assignee_name # "Unassigned"
            THEN [present |-> TRUE, emailAddress |-> "", displayName |-> assignee_name]
            ELSE NoAssignee ]

\* _parse_jira_string_response: the issues of the lines after the header;
\* a line without ":" adds nothing
RECURSIVE ParseLines(_)
ParseLines(lines) ==
    IF lines = <<>> THEN <<>>
    ELSE (IF Has(Head(lines), ":") THEN <<ParseLine(Head(lines))>> ELSE <<>>)
         \o ParseLines(Tail(lines))

parse_jira_string_response(lines) ==
    ParseLines([i \in 1..(Len(lines) - 1) |-> lines[i + 1].tokens])

get_project_issues_by_assignee(response) ==
    IF response.kind = "parse_error" THEN <<>>
    ELSE IF response.kind = "text"
    THEN GroupIssues(parse_jira_string_response(response.lines), <<>>)
    ELSE GroupIssues(response.issues, <<>>)

(* ------------------------------ code host ------------------------------ *)
CommitA == [sha |-> "1a2b3c4d5e", author_email |-> "A@X.IO"]
CommitB == [sha |-> "9f8e7d6c5b", author_email |-> "b@y.io"]

\* what safe_parse(call_tool("list_commits")) gives for one repository:
\* a commit list, None, an error text, or an exception
RepoResponses ==
    { [kind |-> "list", commits |-> <<CommitA>>],
      [kind |-> "list", commits |-> <<CommitB>>],
      [kind |-> "list", commits |-> <<CommitB, CommitA>>],
      [kind |-> "none", commits |-> <<>>],
      [kind |-> "text", commits |-> <<>>],
      [kind |-> "raise", commits |-> <<>>] }

\* the answers with at most one commit
FewRepoResponses == { r \in RepoResponses : Len(r.commits) <= 1 }

\* commit_data; message, author_name and date are carried through unchanged
\* and are not represented
CommitData(full_name, repo, commit) ==
    [ repo |-> repo,
      full_name |-> full_name,
      sha |-> Prefix(commit.sha, ShortShaLen),
      author_email |-> commit.author_email,
      full_sha |-> commit.sha ]

\* the author filter comparing without lower-casing
AuthorMatches_CaseSensitive(assignee_email, commit_data) ==
    IF assignee_email # ""
    THEN Contains(assignee_email, commit_data.author_email)
    ELSE TRUE

\* the author filter of get_commits_for_repos
AuthorMatches(assignee_email, commit_data) ==
    IF assignee_email # ""
    THEN Contains(Lower(assignee_email), Lower(commit_data.author_email))
    ELSE TRUE

RECURSIVE RepoCommits(_, _, _, _)
RepoCommits(full_name, repo, raw, assignee_email) ==
    IF raw = <<>> THEN <<>>
    ELSE LET commit_data == CommitData(full_name, repo, Head(raw))
         IN  (IF AuthorMatches(assignee_email, commit_data)
              THEN <<commit_data>> ELSE <<>>)
             \o RepoCommits(full_name, repo, Tail(raw), assignee_email)

\* get_commits_for_repos giving up at the first repository that fails
RECURSIVE get_commits_for_repos_StopAtFailure(_, _, _)
get_commits_for_repos_StopAtFailure(repo_full_names, assignee_email, responses) ==
    IF repo_full_names = <<>> THEN <<>>
    ELSE LET full_name == Head(repo_full_names)
             parts == SplitSlash[full_name]
         IN  IF Len(parts) # 2 \/ Head(responses).kind # "list" THEN <<>>
             ELSE RepoCommits(full_name, parts[2], Head(responses).commits,
                              assignee_email)
                  \o get_commits_for_repos_StopAtFailure(Tail(repo_full_names),
                         assignee_email, Tail(responses))

\* get_commits_for_repos: responses[i] is the code host's answer for
\* repo_full_names[i]
RECURSIVE get_commits_for_repos(_, _, _)
get_commits_for_repos(repo_full_names, assignee_email, responses) ==
    IF repo_full_names = <<>> THEN <<>>
    ELSE LET full_name == Head(repo_full_names)
             parts == SplitSlash[full_name]
             here == IF Len(parts) # 2 THEN <<>>
                     ELSE IF Head(responses).kind = "list"
                     THEN RepoCommits(full_name, parts[2], Head(responses).commits,
                                      assignee_email)
                     ELSE <<>>
         IN  here \o get_commits_for_repos(Tail(repo_full_names), assignee_email,
                                           Tail(responses))

\* the list_commits calls one get_commits_for_repos issues
RECURSIVE ListCommitsCalls(_)
ListCommitsCalls(repo_full_names) ==
    IF repo_full_names = <<>> THEN 0
    ELSE (IF Len(SplitSlash[Head(repo_full_names)]) = 2 THEN 1 ELSE 0)
         + ListCommitsCalls(Tail(repo_full_names))

\* the arguments of a lone call: repository identifiers, two of them not of
\* the form owner/repo, and author emails
RepoNames ==
    { "InfiniumDevIO/Ample-Frontend", "InfiniumDevIO/Ample-Backend",
      "Ample-Backend", "InfiniumDevIO/Ample/Backend" }
AuthorEmails == {"a@x.io", "A@X.IO", ".io", "b@y.io", ""}

(* ------------------------- classification oracle ----------------------- *)
Statuses == {"COMPLETED", "LIKELY_DONE", "IN_PROGRESS", "PENDING"}

\* the keys of one JSON object of the oracle's array
ResultFields ==
    {"ticket_key", "status", "confidence", "reasoning", "matched_commits", "match_types"}

\* One element of the oracle's answer as the conversion loop meets it: a JSON
\* object holding the keys in `has`, or (obj = FALSE) anything that is not an
\* object.  An entry of matched_commits is a string (str = TRUE) or another
\* JSON value.
Obj(ticket_key, status, confidence, reasoning, matched_commits) ==
    [ obj |-> TRUE, has |-> ResultFields, ticket_key |-> ticket_key,
      status |-> status, confidence |-> confidence, reasoning |-> reasoning,
      matched_commits |-> matched_commits, match_types |-> <<>> ]
NonObj ==
    [ obj |-> FALSE, has |-> {}, ticket_key |-> "", status |-> "", confidence |-> 0,
      reasoning |-> "", matched_commits |-> <<>>, match_types |-> <<>> ]
Without(result, field) == [result EXCEPT !.has = @ \ {field}]
ShaEntry(s) == [str |-> TRUE, s |-> s]
NonStrEntry == [str |-> FALSE, s |-> ""]

FallbackReasoning == "LLM analysis unavailable - manual review required"

\* _fallback_analysis answering for the first ticket only
fallback_analysis_FirstOnly(tickets) ==
    [ i \in 1..(IF tickets = <<>> THEN 0 ELSE 1) |->
        Obj(tickets[i].key, "PENDING", 0, FallbackReasoning, <<>>) ]

\* _fallback_analysis
fallback_analysis(tickets) ==
    [ i \in 1..Len(tickets) |->
        Obj(tickets[i].key, "PENDING", 0, FallbackReasoning, <<>>) ]

\* What one generate_content call can end with:
\*   raise         the call raises
\*   bad_json      response.text is not JSON: json.loads raises
\*   scalar        JSON number, true, false or null: len(results) raises
\*   object        a non-empty JSON object: iterating it yields its keys (strings)
\*   empty_object  {}: iterating it yields nothing
\*   array         a JSON array
Outcome(kind, items) == [kind |-> kind, items |-> items]

\* analyze_assignee_progress: the value handed back to analyze_project, as the
\* sequence of elements its "for llm_result in llm_results" visits
analyze_assignee_progress(has_client, tickets, outcome) ==
    IF ~has_client THEN fallback_analysis(tickets)
    ELSE IF outcome.kind \in {"raise", "bad_json", "scalar"}
    THEN fallback_analysis(tickets)
    ELSE IF outcome.kind = "object" THEN <<NonObj>>
    ELSE IF outcome.kind = "empty_object" THEN <<>>
    ELSE outcome.items

(* --------------------------- analyze_project --------------------------- *)
\* the ticket lookup falling back to the first ticket instead of None
FindTicket_DefaultFirst(issues, key) ==
    IF \E i \in 1..Len(issues) : issues[i].key = key
    THEN CHOOSE i \in 1..Len(issues) :
            /\ issues[i].key = key
            /\ \A j \in 1..(i - 1) : issues[j].key # key
    ELSE 1

\* next((t for t in issues if t['key'] == key), None): its index, 0 for None
FindTicket(issues, key) ==
    IF \E i \in 1..Len(issues) : issues[i].key = key
    THEN CHOOSE i \in 1..Len(issues) :
            /\ issues[i].key = key
            /\ \A j \in 1..(i - 1) : issues[j].key # key
    ELSE 0

\* next((c for c in commits if commit_sha in c['sha']), None): its index, 0 for None
FindCommit(commits, commit_sha) ==
    IF \E i \in 1..Len(commits) : Contains(commit_sha, commits[i].sha)
    THEN CHOOSE i \in 1..Len(commits) :
            /\ Contains(commit_sha, commits[i].sha)
            /\ \A j \in 1..(i - 1) : ~Contains(commit_sha, commits[j].sha)
    ELSE 0

\* the loop over llm_result.get('matched_commits', []); raised = an exception
\* left the loop (a non-string entry tested with "in", a missing 'confidence')
RECURSIVE ResolveCommits(_, _, _, _)
ResolveCommits(entries, commits, llm_result, matched_commit_objs) ==
    IF entries = <<>> THEN [raised |-> FALSE, objs |-> matched_commit_objs]
    ELSE IF ~Head(entries).str THEN [raised |-> TRUE, objs |-> <<>>]
    ELSE LET c == FindCommit(commits, Head(entries).s)
         IN  IF c = 0
             THEN ResolveCommits(Tail(entries), commits, llm_result, matched_commit_objs)
             ELSE IF "confidence" \notin llm_result.has
             THEN [raised |-> TRUE, objs |-> <<>>]
             ELSE ResolveCommits(Tail(entries), commits, llm_result,
                    Append(matched_commit_objs,
                        [ commit |-> commits[c],
                          score |-> llm_result.confidence,
                          match_type |-> IF "match_types" \in llm_result.has
                                         THEN llm_result.match_types ELSE <<>> ]))

\* a variant of the loop's body that distrusts a classification whose
\* matched_commits did not all resolve, and falls back to PENDING for it
ConvertResult_DistrustUnresolved(llm_result, issues, commits) ==
    LET none == [raised |-> FALSE, skip |-> TRUE, match |-> <<>>]
        fail == [raised |-> TRUE, skip |-> TRUE, match |-> <<>>]
    IN
    IF ~llm_result.obj \/ "ticket_key" \notin llm_result.has THEN fail
    ELSE LET t == FindTicket(issues, llm_result.ticket_key)
         IN
         IF t = 0 THEN none
         ELSE LET r == ResolveCommits(
                          IF "matched_commits" \in llm_result.has
                          THEN llm_result.matched_commits ELSE <<>>,
                          commits, llm_result, <<>>)
                  all == "matched_commits" \notin llm_result.has
                            \/ Len(r.objs) = Len(llm_result.matched_commits)
              IN
              IF r.raised THEN fail
              ELSE IF {"status", "confidence", "reasoning"} \subseteq llm_result.has
              THEN [ raised |-> FALSE, skip |-> FALSE,
                     match |-> [ ticket |-> issues[t],
                                 status |-> IF all THEN llm_result.status ELSE "PENDING",
                                 confidence |-> IF all THEN llm_result.confidence ELSE 0,
                                 reasoning |-> llm_result.reasoning,
                                 matched_commits |-> r.objs,
                                 total_matches |-> Len(r.objs) ] ]
              ELSE fail

\* one pass of the conversion loop's body: the match to append (skip = FALSE),
\* nothing (skip = TRUE), or an exception (raised = TRUE)
ConvertResult(llm_result, issues, commits) ==
    LET none == [raised |-> FALSE, skip |-> TRUE, match |-> <<>>]
        fail == [raised |-> TRUE, skip |-> TRUE, match |-> <<>>]
    IN
    IF ~llm_result.obj \/ "ticket_key" \notin llm_result.has THEN fail
    ELSE LET t == FindTicket(issues, llm_result.ticket_key)
         IN
         IF t = 0 THEN none
         ELSE LET r == ResolveCommits(
                          IF "matched_commits" \in llm_result.has
                          THEN llm_result.matched_commits ELSE <<>>,
                          commits, llm_result, <<>>)
              IN
              IF r.raised THEN fail
              ELSE IF {"status", "confidence", "reasoning"} \subseteq llm_result.has
              THEN [ raised |-> FALSE, skip |-> FALSE,
                     match |-> [ ticket |-> issues[t],
                                 status |-> llm_result.status,
                                 confidence |-> llm_result.confidence,
                                 reasoning |-> llm_result.reasoning,
                                 matched_commits |-> r.objs,
                                 total_matches |-> Len(r.objs) ] ]
              ELSE fail

\* the conversion loop "for llm_result in llm_results"
RECURSIVE BuildMatches(_, _, _, _)
BuildMatches(llm_results, issues, commits, matches) ==
    IF llm_results = <<>> THEN [raised |-> FALSE, matches |-> matches]
    ELSE LET r == ConvertResult(Head(llm_results), issues, commits)
         IN  IF r.raised THEN [raised |-> TRUE, matches |-> <<>>]
             ELSE BuildMatches(Tail(llm_results), issues, commits,
                               IF r.skip THEN matches ELSE Append(matches, r.match))

\* sum(1 for m in matches if m['status'] == status)
CountStatus(matches, status) ==
    Cardinality({i \in 1..Len(matches) : matches[i].status = status})

\* the summary built after the conversion loop
Summary(issues, matches, commits) ==
    [ total_tickets |-> Len(issues),
      completed |-> CountStatus(matches, "COMPLETED"),
      likely_done |-> CountStatus(matches, "LIKELY_DONE"),
      in_progress |-> CountStatus(matches, "IN_PROGRESS"),
      pending |-> CountStatus(matches, "PENDING"),
      total_commits |-> Len(commits) ]

\* the zero-commit entry counting no ticket as pending
ZeroCommitAnalysis_NonePending(issues) ==
    [ tickets |-> issues,
      commits |-> <<>>,
      matches |-> <<>>,
      summary |-> [ total_tickets |-> Len(issues), completed |-> 0, likely_done |-> 0,
                    in_progress |-> 0, pending |-> 0, total_commits |-> 0 ] ]

\* the AssigneeAnalysis stored when no commit was fetched
ZeroCommitAnalysis(issues) ==
    [ tickets |-> issues,
      commits |-> <<>>,
      matches |-> <<>>,
      summary |-> [ total_tickets |-> Len(issues), completed |-> 0, likely_done |-> 0,
                    in_progress |-> 0, pending |-> Len(issues), total_commits |-> 0 ] ]

\* the AssigneeAnalysis stored after the conversion loop
AssigneeAnalysis(issues, commits, matches) ==
    [ tickets |-> issues,
      commits |-> commits,
      matches |-> matches,
      summary |-> Summary(issues, matches, commits) ]

(* ------------------------ the oracle's answers ------------------------- *)
SeqsUpTo(S, n) == UNION { [1..m -> S] : m \in 0..n }

\* a ticket key that is in no batch
UnknownKey == "ZZ-9"

\* (status, confidence) pairs an answer can carry: one inside each band, one
\* outside its band, one outside 0..100, one with an undefined status
Classifications ==
    { <<"COMPLETED", 95>>, <<"LIKELY_DONE", 75>>, <<"IN_PROGRESS", 45>>,
      <<"PENDING", 10>>, <<"COMPLETED", 10>>, <<"PENDING", 150>>, <<"DONE", 95>> }

\* matched_commits lists an answer can carry
MatchedCommitLists ==
    { <<ShaEntry("1a2b3c4")>>,
      <<ShaEntry("fffffff")>>,
      <<ShaEntry("fffffff"), ShaEntry("9f8e7d6")>>,
      <<ShaEntry("9f8e7d6"), ShaEntry("1a2b3c4")>>,
      <<ShaEntry("")>>,
      <<ShaEntry("d6")>>,
      <<NonStrEntry>> }

\* the elements of the arrays the oracle can answer a batch with
OracleResults(tickets) ==
    { Obj(tickets[i].key, c[1], c[2], "r", <<>>) :
        i \in 1..Len(tickets), c \in Classifications }
    \cup { Obj(tickets[1].key, "LIKELY_DONE", 75, "r", mc) : mc \in MatchedCommitLists }
    \cup { Obj(UnknownKey, "COMPLETED", 95, "r", <<ShaEntry("1a2b3c4")>>) }
    \cup { Without(Obj(tickets[1].key, "LIKELY_DONE", 75, "r", <<ShaEntry("1a2b3c4")>>), f) :
             f \in ResultFields }
    \cup { NonObj }

\* every outcome of the oracle call for a batch
OracleOutcomes(tickets) ==
    { Outcome(k, <<>>) : k \in {"raise", "bad_json", "scalar", "object", "empty_object"} }
    \cup { Outcome("array", a) : a \in SeqsUpTo(OracleResults(tickets), MaxResults) }

\* a few outcomes: a failure, an answer for every ticket, for none, a malformed one
FewOutcomes(tickets) ==
    { Outcome("raise", <<>>),
      Outcome("array", <<>>),
      Outcome("array", <<NonObj>>),
      Outcome("array", [ i \in 1..Len(tickets) |->
          Obj(tickets[i].key, "COMPLETED", 95, "r", <<ShaEntry("1a2b3c4")>>) ]),
      Outcome("array", [ i \in 1..Len(tickets) |->
          Obj(tickets[i].key, "IN_PROGRESS", 45, "r", <<>>) ]) }

\* tracker answers in which all tickets have one assignee
OneAssigneeResponses ==
    { r \in TrackerResponses : Len(get_project_issues_by_assignee(r)) <= 1 }

(* ------------------------------- state --------------------------------- *)
VARIABLES
    pc,                \* where analyze_project is: idle, fetch_issues, loop, analyze,
                       \* returned, raised
    has_client,        \* whether genai_client was configured at import
    project_key, status_filter,
    repos, assignee_issues, idx, commits, llm_results, analysis_results,
    result,            \* the value analyze_project returned
    outcome_kind,      \* how the last oracle call ended
    jira_calls, github_calls, engine_calls, oracle_calls,  \* calls issued so far
    jira_response,     \* what the tracker answered to the last search_issues
    issues_data,       \* the ticket records the parse step made of the answer
    query, all_commits, \* the arguments and the result of a lone get_commits_for_repos
    session_kind,      \* which session runs: analysis, batch_api, batch_script,
                       \* listing, assignees
    session_pc,        \* idle, body, batch_loop, disconnect, returned, raised
    jira_conn, github_conn,     \* closed, open, released, release_failed
    jira_opens, github_opens,   \* connections opened so far
    body_raised,       \* an exception is on its way out of the session's try block
    batch_keys, batch_idx,      \* the project keys a batch run loops over
    invoked,           \* the analyze_project calls of the session and how they ended
    projects_str,      \* what the tracker answered to get_all_projects
    jira_projects,     \* self.jira_projects
    all_results        \* the output of a batch run

\* the variables outside analyze_project
queryVars == << query, all_commits >>
connVars == << jira_conn, github_conn, jira_opens, github_opens >>
batchVars == << batch_keys, batch_idx, invoked, all_results >>
listVars == << projects_str, jira_projects >>
sessionVars == << session_kind, session_pc, body_raised, connVars, batchVars, listVars >>
others == << queryVars, sessionVars >>

\* the variables of analyze_project
trackerVars == << pc, has_client, project_key, status_filter, repos, assignee_issues, idx,
                 commits, llm_results, analysis_results, result, outcome_kind,
                 jira_calls, github_calls, engine_calls, oracle_calls, jira_response,
                 issues_data >>

vars == << trackerVars, others >>

NoResponse == [kind |-> "none", issues |-> <<>>]
NoQuery == [pending |-> TRUE]
\* get_all_projects was not called yet
NotRead == <<[form |-> "not_read"]>>

NoResult == [pending |-> TRUE]
EmptyDict == [a \in {} |-> a]

\* {"error": f"No repository mapping found for {project_key}"}
NoMappingError(key) == [error |-> <<"No repository mapping found for ", key>>]
\* {"error": "No issues found"}
NoIssuesError == [error |-> <<"No issues found">>]

\* the ProjectAnalysis returned at the end
ProjectAnalysis(key, repositories, results) ==
    [ project_key |-> key,
      repositories |-> repositories,
      assignee_analysis |-> results,
      timestamp |-> "now" ]

Init ==
    /\ pc = "idle"
    /\ has_client \in BOOLEAN
    /\ project_key = ""
    /\ status_filter = ""
    /\ repos = <<>>
    /\ assignee_issues = <<>>
    /\ idx = 0
    /\ commits = <<>>
    /\ llm_results = <<>>
    /\ analysis_results = EmptyDict
    /\ result = NoResult
    /\ outcome_kind = "none"
    /\ jira_calls = 0
    /\ github_calls = 0
    /\ engine_calls = 0
    /\ oracle_calls = 0
    /\ jira_response = NoResponse
    /\ issues_data = <<>>
    /\ query = NoQuery
    /\ all_commits = <<>>
    /\ session_kind = "none"
    /\ session_pc = "idle"
    /\ jira_conn = "closed"
    /\ github_conn = "closed"
    /\ jira_opens = 0
    /\ github_opens = 0
    /\ body_raised = FALSE
    /\ batch_keys = <<>>
    /\ batch_idx = 0
    /\ invoked = <<>>
    /\ projects_str = NotRead
    /\ jira_projects = <<>>
    /\ all_results = <<>>

\* analyze_project without the "if not repos" return
StartWith_NoMapCheck(keys, filters) ==
    /\ pc = "idle"
    /\ \E key \in keys, filter \in filters :
        /\ project_key' = key
        /\ status_filter' = filter
        /\ repos' = MapGet(key)
        /\ result' = result
        /\ pc' = "fetch_issues"
    /\ UNCHANGED << has_client, assignee_issues, idx, commits, llm_results,
                    analysis_results, outcome_kind, jira_calls, github_calls,
                    engine_calls, oracle_calls >>
    /\ UNCHANGED << jira_response, issues_data, others >>

\* analyze_project querying the ticket tracker before the "if not repos" return
StartWith_QueryFirst(keys, filters) ==
    /\ pc = "idle"
    /\ \E key \in keys, filter \in filters :
        /\ project_key' = key
        /\ status_filter' = filter
        /\ repos' = MapGet(key)
        /\ IF MapGet(key) = <<>>
           THEN /\ result' = NoMappingError(key)
                /\ pc' = "returned"
                /\ jira_calls' = jira_calls + 1
           ELSE /\ result' = result
                /\ pc' = "fetch_issues"
                /\ jira_calls' = jira_calls
    /\ UNCHANGED << has_client, assignee_issues, idx, commits, llm_results,
                    analysis_results, outcome_kind, github_calls,
                    engine_calls, oracle_calls >>
    /\ UNCHANGED << jira_response, issues_data, others >>

\* analyze_project up to its first await: the Repository Map lookup
StartWith(keys, filters) ==
    /\ pc = "idle"
    /\ \E key \in keys, filter \in filters :
        /\ project_key' = key
        /\ status_filter' = filter
        /\ repos' = MapGet(key)
        /\ IF MapGet(key) = <<>>
           THEN /\ result' = NoMappingError(key)
                /\ pc' = "returned"
           ELSE /\ result' = result
                /\ pc' = "fetch_issues"
    /\ UNCHANGED << has_client, assignee_issues, idx, commits, llm_results,
                    analysis_results, outcome_kind, jira_calls, github_calls,
                    engine_calls, oracle_calls >>
    /\ UNCHANGED << jira_response, issues_data, others >>

\* the ticket fetch without the "if not assignee_issues" return
FetchIssuesFrom_NoEmptyCheck(responses) ==
    /\ pc = "fetch_issues"
    /\ \E response \in responses :
        /\ assignee_issues' = get_project_issues_by_assignee(response)
        /\ jira_response' = response
        /\ issues_data' = IF response.kind = "text"
                          THEN parse_jira_string_response(response.lines)
                          ELSE response.issues
    /\ jira_calls' = jira_calls + 1
    /\ pc' = "loop"
    /\ idx' = 1
    /\ UNCHANGED << has_client, project_key, status_filter, repos, commits, llm_results,
                    analysis_results, result, outcome_kind, github_calls, engine_calls,
                    oracle_calls >>
    /\ UNCHANGED others

\* await get_project_issues_by_assignee(...) and the check that follows it
FetchIssuesFrom(responses) ==
    /\ pc = "fetch_issues"
    /\ \E response \in responses :
        /\ assignee_issues' = get_project_issues_by_assignee(response)
        /\ jira_response' = response
        /\ issues_data' = IF response.kind = "text"
                          THEN parse_jira_string_response(response.lines)
                          ELSE response.issues
        /\ jira_calls' = jira_calls + 1
        /\ IF get_project_issues_by_assignee(response) = <<>>
           THEN /\ result' = NoIssuesError
                /\ pc' = "returned"
                /\ idx' = idx
           ELSE /\ result' = result
                /\ pc' = "loop"
                /\ idx' = 1
    /\ UNCHANGED << has_client, project_key, status_filter, repos, commits, llm_results,
                    analysis_results, outcome_kind, github_calls, engine_calls,
                    oracle_calls >>
    /\ UNCHANGED others

\* the head of one loop pass: await get_commits_for_repos(...)
FetchCommitsFrom(answers) ==
    /\ pc = "loop"
    /\ idx <= Len(assignee_issues)
    /\ \E responses \in [1..Len(repos) -> answers] :
        commits' = get_commits_for_repos(repos,
                        assignee_issues[idx].issues[1].assignee_email, responses)
    /\ github_calls' = github_calls + ListCommitsCalls(repos)
    /\ pc' = "analyze"
    /\ UNCHANGED << has_client, project_key, status_filter, repos, assignee_issues, idx,
                    llm_results, analysis_results, result, outcome_kind, jira_calls,
                    engine_calls, oracle_calls >>
    /\ UNCHANGED << jira_response, issues_data, others >>

\* "if not commits" going on to the next assignee without storing an entry
ZeroCommits_NoEntry ==
    /\ pc = "analyze"
    /\ commits = <<>>
    /\ idx' = idx + 1
    /\ pc' = "loop"
    /\ UNCHANGED << has_client, project_key, status_filter, repos, assignee_issues,
                    commits, llm_results, analysis_results, result, outcome_kind,
                    jira_calls, github_calls, engine_calls, oracle_calls >>
    /\ UNCHANGED << jira_response, issues_data, others >>

\* "if not commits": the assignee's entry without the Matching Engine
ZeroCommits ==
    /\ pc = "analyze"
    /\ commits = <<>>
    /\ analysis_results' =
         (assignee_issues[idx].assignee :> ZeroCommitAnalysis(assignee_issues[idx].issues))
         @@ analysis_results
    /\ idx' = idx + 1
    /\ pc' = "loop"
    /\ UNCHANGED << has_client, project_key, status_filter, repos, assignee_issues,
                    commits, llm_results, result, outcome_kind, jira_calls,
                    github_calls, engine_calls, oracle_calls >>
    /\ UNCHANGED << jira_response, issues_data, others >>

\* the rest of one loop pass: analyze_assignee_progress, the conversion loop,
\* the summary and the assignee's entry
AnalyzeWith(every_outcome) ==
    /\ pc = "analyze"
    /\ commits # <<>>
    /\ LET issues == assignee_issues[idx].issues
       IN  \E outcome \in (IF ~has_client THEN {Outcome("no_client", <<>>)}
                           ELSE IF every_outcome THEN OracleOutcomes(issues)
                           ELSE FewOutcomes(issues)) :
            LET results == analyze_assignee_progress(has_client, issues, outcome)
                built == BuildMatches(results, issues, commits, <<>>)
            IN  /\ outcome_kind' = outcome.kind
                /\ llm_results' = results
                /\ IF built.raised
                   THEN /\ pc' = "raised"
                        /\ UNCHANGED << analysis_results, idx >>
                   ELSE /\ analysis_results' =
                             (assignee_issues[idx].assignee :>
                                 AssigneeAnalysis(issues, commits, built.matches))
                             @@ analysis_results
                        /\ idx' = idx + 1
                        /\ pc' = "loop"
    /\ engine_calls' = engine_calls + 1
    /\ oracle_calls' = oracle_calls + (IF has_client THEN 1 ELSE 0)
    /\ UNCHANGED << has_client, project_key, status_filter, repos, assignee_issues,
                    commits, result, jira_calls, github_calls >>
    /\ UNCHANGED << jira_response, issues_data, others >>

\* the return after the loop
Finish ==
    /\ pc = "loop"
    /\ idx > Len(assignee_issues)
    /\ result' = ProjectAnalysis(project_key, repos, analysis_results)
    /\ pc' = "returned"
    /\ UNCHANGED << has_client, project_key, status_filter, repos, assignee_issues, idx,
                    commits, llm_results, analysis_results, outcome_kind, jira_calls,
                    github_calls, engine_calls, oracle_calls >>
    /\ UNCHANGED << jira_response, issues_data, others >>

\* one call of get_commits_for_repos on its own
GetCommits ==
    /\ pc = "idle"
    /\ query = NoQuery
    /\ \E n \in 0..MaxRepos :
        \E repo_full_names \in [1..n -> RepoNames], assignee_email \in AuthorEmails,
           responses \in [1..n -> RepoResponses] :
            /\ query' = [ repo_full_names |-> repo_full_names,
                          assignee_email |-> assignee_email,
                          responses |-> responses ]
            /\ all_commits' =
                  get_commits_for_repos(repo_full_names, assignee_email, responses)
    /\ UNCHANGED << trackerVars, sessionVars >>

(* ------------------------------ sessions ------------------------------- *)
\* A session is one run of perform_analysis, perform_batch_analysis,
\* fetch_projects, fetch_assignees (app.py) or of analyze_all_projects
\* (batch_analyzer.py).  Inside a session analyze_project is taken by the
\* ways it can end.
SessionKinds == {"analysis", "batch_api", "batch_script", "listing", "assignees"}

\* a ProjectAnalysis of a mapped project: one unassigned ticket, no commit
SomeAnalysis(key) ==
    ProjectAnalysis(key, MapGet(key),
        "Unassigned" :>
            ZeroCommitAnalysis(<<IssueSummary([key |-> "T-1", assignee |-> NoAssignee])>>))

\* how analyze_project(key) can end: an error result, a ProjectAnalysis, or
\* an exception
AnalysisOutcomes(key) ==
    IF MapGet(key) = <<>>
    THEN { [raised |-> FALSE, value |-> NoMappingError(key)] }
    ELSE { [raised |-> FALSE, value |-> NoIssuesError],
           [raised |-> FALSE, value |-> SomeAnalysis(key)],
           [raised |-> TRUE, value |-> [exception |-> "boom"]] }

\* one line of the project list as the server writes it, "{key}: {name}";
\* the name is kept as the pieces between and including its colons
ProjectLine(key, name) ==
    [form |-> "project", key |-> key, name |-> name, tokens |-> <<key, ":">> \o name]

ProjectLines ==
    { ProjectLine("AL", <<"Ample">>), ProjectLine("BV3", <<"BlueValley">>),
      ProjectLine("ZZ", <<"Other">>), ProjectLine("ZZ", <<"Other", ":", "old">>) }

\* a one-line answer that is no project list: the text read_resource makes of
\* a failed read, the server's error message, the text of an empty read
ListingMessages ==
    { [form |-> "error", key |-> "", name |-> <<>>,
       tokens |-> <<"Error reading resource jira", ":", "//projects", ":", "boom">>],
      [form |-> "error", key |-> "", name |-> <<>>,
       tokens |-> <<"Error retrieving projects", ":", "boom">>],
      [form |-> "error", key |-> "", name |-> <<>>,
       tokens |-> <<"No content returned">>] }

\* what get_all_projects can answer: the lines of the listed projects, or one
\* message
ProjectListings ==
    UNION { [1..n -> ProjectLines] : n \in 0..MaxProjects }
    \cup { <<m>> : m \in ListingMessages }

\* line.split(sep, 1) of a line that holds sep
SplitOnce(tokens, sep) ==
    LET i == CHOOSE i \in 1..Len(tokens) :
                /\ tokens[i] = sep
                /\ \A j \in 1..(i - 1) : tokens[j] # sep
    IN  << SubSeq(tokens, 1, i - 1), SubSeq(tokens, i + 1, Len(tokens)) >>

\* discover_jira_projects: a {key, name} for every line that holds ":"
RECURSIVE discover_jira_projects(_)
discover_jira_projects(lines) ==
    IF lines = <<>> THEN <<>>
    ELSE (IF Has(Head(lines).tokens, ":")
          THEN << [ key |-> Text(SplitOnce(Head(lines).tokens, ":")[1]),
                    name |-> SplitOnce(Head(lines).tokens, ":")[2] ] >>
          ELSE <<>>)
         \o discover_jira_projects(Tail(lines))

\* the project keys batch_analyzer.py loops over: the keys of the map, cut to
\* the first MaxProjects
BatchMapKeys == SubSeq(MapKeys, 1, MaxProjects)

\* an entry of the batch output: the dict key it is stored under (batch_analyzer.py;
\* "" for the elements of the list of app.py) and the value
Entry(at, value) == [at |-> at, value |-> value]

\* all_results[key] = value on the ordered dict
DictSet(entries, key, value) ==
    IF \E i \in 1..Len(entries) : entries[i].at = key
    THEN [ i \in 1..Len(entries) |->
             IF entries[i].at = key THEN Entry(key, value) ELSE entries[i] ]
    ELSE Append(entries, Entry(key, value))

\* how connect_clients can end
ConnectOutcomes ==
    {"ok", "jira_fails", "jira_init_fails", "github_fails", "github_init_fails"}

\* "tracker = DynamicProjectTracker(); await tracker.connect_clients()", the
\* first statements of every session, outside its try block: both connects
\* succeed, or the first or the second one raises, before its transport was
\* opened (x_fails) or after it (x_init_fails: session.initialize() raises)
ConnectClients ==
    /\ session_pc = "idle"
    /\ \E kind \in SessionKinds, outcome \in ConnectOutcomes :
        /\ session_kind' = kind
        /\ jira_conn' = IF outcome = "jira_fails" THEN "closed" ELSE "open"
        /\ jira_opens' = jira_opens + (IF outcome = "jira_fails" THEN 0 ELSE 1)
        /\ github_conn' = IF outcome \in {"ok", "github_init_fails"}
                          THEN "open" ELSE "closed"
        /\ github_opens' = github_opens
                              + (IF outcome \in {"ok", "github_init_fails"} THEN 1 ELSE 0)
        /\ session_pc' = IF outcome = "ok" THEN "body" ELSE "raised"
    /\ UNCHANGED << trackerVars, queryVars, listVars, body_raised, batchVars >>

\* the try block of perform_analysis: one analyze_project call
PerformAnalysis ==
    /\ session_pc = "body"
    /\ session_kind = "analysis"
    /\ \E key \in ProjectKeys :
        \E outcome \in AnalysisOutcomes(key) :
            /\ invoked' = Append(invoked, [ key |-> key, outcome |-> outcome,
                                            slept |-> FALSE ])
            /\ body_raised' = outcome.raised
    /\ session_pc' = "disconnect"
    /\ UNCHANGED << trackerVars, queryVars, listVars, session_kind, connVars, batch_keys,
                    batch_idx, all_results >>

\* the try block of fetch_assignees: get_project_issues_by_assignee and the
\* summary loop; it returns or raises
FetchAssignees ==
    /\ session_pc = "body"
    /\ session_kind = "assignees"
    /\ body_raised' \in BOOLEAN
    /\ session_pc' = "disconnect"
    /\ UNCHANGED << trackerVars, queryVars, listVars, session_kind, connVars, batchVars >>

\* await tracker.discover_jira_projects(): all of fetch_projects' try block,
\* the head of perform_batch_analysis' one
DiscoverProjects ==
    /\ session_pc = "body"
    /\ session_kind \in {"listing", "batch_api"}
    /\ \E listing \in ProjectListings :
        /\ projects_str' = listing
        /\ jira_projects' = discover_jira_projects(listing)
        /\ batch_keys' = [ i \in 1..Len(discover_jira_projects(listing)) |->
                             discover_jira_projects(listing)[i].key ]
    /\ IF session_kind = "listing"
       THEN /\ session_pc' = "disconnect"
            /\ batch_idx' = batch_idx
       ELSE /\ session_pc' = "batch_loop"
            /\ batch_idx' = 1
    /\ UNCHANGED << trackerVars, queryVars, session_kind, connVars, body_raised,
                    invoked, all_results >>

\* batch_analyzer.py entering "for project_key in JIRA_TO_GITHUB_MAP.keys()"
BatchScriptStart ==
    /\ session_pc = "body"
    /\ session_kind = "batch_script"
    /\ batch_keys' = BatchMapKeys
    /\ batch_idx' = 1
    /\ session_pc' = "batch_loop"
    /\ UNCHANGED << trackerVars, queryVars, listVars, session_kind, connVars, body_raised,
                    invoked, all_results >>

\* one pass of the batch loop.  batch_analyzer.py: analyze_project, then
\* all_results[project_key] = analysis, or {"error": str(e)} when it raised,
\* then "await asyncio.sleep(2)" (slept).
\* app.py: only for a key the map answers for; results.append(analysis), or
\* results.append({'project_key', 'error'}) when it raised.
BatchStep ==
    /\ session_pc = "batch_loop"
    /\ batch_idx <= Len(batch_keys)
    /\ LET key == batch_keys[batch_idx]
       IN  IF session_kind = "batch_api" /\ MapGet(key) = <<>>
           THEN UNCHANGED << invoked, all_results >>
           ELSE \E outcome \in AnalysisOutcomes(key) :
                /\ invoked' = Append(invoked, [ key |-> key, outcome |-> outcome,
                                                slept |-> session_kind = "batch_script" ])
                /\ all_results' =
                     IF session_kind = "batch_script"
                     THEN DictSet(all_results, key,
                                  IF outcome.raised
                                  THEN [error |-> <<outcome.value.exception>>]
                                  ELSE outcome.value)
                     ELSE Append(all_results,
                                 Entry("", IF outcome.raised
                                           THEN [ project_key |-> key,
                                                  error |-> <<outcome.value.exception>> ]
                                           ELSE outcome.value))
    /\ batch_idx' = batch_idx + 1
    /\ UNCHANGED << trackerVars, queryVars, listVars, session_kind, session_pc, connVars,
                    body_raised, batch_keys >>

\* the end of the batch loop: app.py returns the list; batch_analyzer.py
\* writes the JSON file, which can raise
BatchEnd ==
    /\ session_pc = "batch_loop"
    /\ batch_idx > Len(batch_keys)
    /\ body_raised' \in (IF session_kind = "batch_script" THEN BOOLEAN ELSE {FALSE})
    /\ session_pc' = "disconnect"
    /\ UNCHANGED << trackerVars, queryVars, listVars, session_kind, connVars, batchVars >>

\* "finally: await tracker.disconnect_clients()": the code-host disconnect,
\* then the ticket-tracker disconnect, each of which can raise and is caught
DisconnectClients ==
    /\ session_pc = "disconnect"
    /\ \E github_ok, jira_ok \in BOOLEAN :
        /\ github_conn' = IF github_ok THEN "released" ELSE "release_failed"
        /\ jira_conn' = IF jira_ok THEN "released" ELSE "release_failed"
    /\ session_pc' = IF body_raised THEN "raised" ELSE "returned"
    /\ UNCHANGED << trackerVars, queryVars, listVars, session_kind, jira_opens, github_opens,
                    body_raised, batchVars >>

Start == StartWith(ProjectKeys, StatusFilters)
FetchIssues == FetchIssuesFrom(TrackerResponses)
FetchCommits == FetchCommitsFrom(FewRepoResponses)
Analyze == AnalyzeWith(FALSE)

\* analyze_project on any project, any grouping, a few oracle outcomes
Next == Start \/ FetchIssues \/ FetchCommits \/ ZeroCommits \/ Analyze \/ Finish
Spec == Init /\ [][Next]_vars

StartMatch == StartWith({"BV3"}, {"active"})
FetchIssuesMatch == FetchIssuesFrom(OneAssigneeResponses)
FetchCommitsMatch == FetchCommitsFrom(RepoResponses)
AnalyzeMatch == AnalyzeWith(TRUE)

\* analyze_project on one assignee's batch with every oracle outcome
NextMatch ==
    StartMatch \/ FetchIssuesMatch \/ FetchCommitsMatch \/ ZeroCommits \/ AnalyzeMatch
    \/ Finish
SpecMatch == Init /\ [][NextMatch]_vars

StartFetch == StartWith({"AL"}, {"active"})
FetchIssuesAny == FetchIssuesFrom(TrackerResponses \cup TextResponses)

\* the ticket fetch of analyze_project on structured answers and text tables
NextFetch == StartFetch \/ FetchIssuesAny
SpecFetch == Init /\ [][NextFetch]_vars

\* get_commits_for_repos on any repository list, author email and answers
NextCommits == GetCommits
SpecCommits == Init /\ [][NextCommits]_vars

\* the sessions of app.py and batch_analyzer.py
NextSession ==
    ConnectClients \/ PerformAnalysis \/ FetchAssignees \/ DiscoverProjects
    \/ BatchScriptStart \/ BatchStep \/ BatchEnd \/ DisconnectClients
SpecSession == Init /\ [][NextSession]_vars

(* ------------------------------ properties ----------------------------- *)
\* the assignee whose loop pass ended last, and what was stored for it
Processed == pc \in {"loop", "returned"} /\ idx > 1
LastGroup == assignee_issues[idx - 1]
LastAnalysis == analysis_results[LastGroup.assignee]
\* the last loop pass went through the Matching Engine
Analyzed == Processed /\ commits # <<>>
\* a loop pass ended in an exception that left analyze_project
Raised == pc = "raised"
\* the batch of the pass that raised
RaisedIssues == assignee_issues[idx].issues

KeysOf(issues) == { issues[i].key : i \in 1..Len(issues) }

\* C1: whatever the oracle did (client absent, call raised, unparseable text,
\* or a JSON array that omits, repeats or invents tickets), the matches built
\* for the assignee hold exactly one MatchResult per input ticket.
C1_OneMatchPerTicket ==
    (Analyzed /\ outcome_kind \in {"no_client", "raise", "bad_json", "array"}) =>
        /\ Len(LastAnalysis.matches) = Len(LastGroup.issues)
        /\ \A k \in KeysOf(LastGroup.issues) :
            Cardinality({ j \in 1..Len(LastAnalysis.matches) :
                            LastAnalysis.matches[j].ticket.key = k }) = 1

\* the oracle's answer does not have the expected shape
Malformed(results) ==
    \E i \in 1..Len(results) :
        \/ ~results[i].obj
        \/ ~({"ticket_key", "status", "confidence", "reasoning"} \subseteq results[i].has)
OracleFailed ==
    \/ outcome_kind \in {"no_client", "raise", "bad_json", "scalar", "object",
                         "empty_object"}
    \/ outcome_kind = "array" /\ Malformed(llm_results)

\* the MatchResults of the deterministic fallback
FallbackMatches(issues) ==
    [ i \in 1..Len(issues) |->
        [ ticket |-> issues[i], status |-> "PENDING", confidence |-> 0,
          reasoning |-> FallbackReasoning, matched_commits |-> <<>>,
          total_matches |-> 0 ] ]

\* C2: when the oracle is not configured, raises, or answers something that
\* is not the expected JSON shape, analyze_project raises nothing and every
\* ticket of the assignee gets the fallback result.
C2_OracleFailuresDegrade ==
    /\ Raised => ~OracleFailed
    /\ (Analyzed /\ OracleFailed) =>
          LastAnalysis.matches = FallbackMatches(LastGroup.issues)

OracleUnavailable == outcome_kind \in {"no_client", "raise", "bad_json"}

\* C3: oracle unavailable (no client, call raised, text not JSON) and at least
\* one commit: one MatchResult per ticket in input order, each PENDING with
\* confidence 0 and no matched commits; the summary counts every ticket pending.
C3_FallbackAllPending ==
    /\ (Raised /\ commits # <<>>) => ~OracleUnavailable
    /\ (Analyzed /\ OracleUnavailable) =>
        LET issues == LastGroup.issues
            matches == LastAnalysis.matches
            summary == LastAnalysis.summary
        IN  /\ Len(matches) = Len(issues)
            /\ \A i \in 1..Len(issues) :
                /\ matches[i].ticket = issues[i]
                /\ matches[i].status = "PENDING"
                /\ matches[i].confidence = 0
                /\ matches[i].matched_commits = <<>>
            /\ summary.pending = Len(issues)
            /\ summary.completed = 0
            /\ summary.likely_done = 0
            /\ summary.in_progress = 0

\* a two-ticket batch with commits went through the fallback after the
\* oracle's text failed to parse
C3_Witness ==
    /\ Analyzed
    /\ outcome_kind = "bad_json"
    /\ Len(LastGroup.issues) = 2
    /\ Len(LastAnalysis.matches) = 2

\* C4: in every MatchResult emitted, confidence is an integer in 0..100 and
\* status is one of the four tiers, whatever the oracle returned.
C4_ConfidenceAndStatusInRange ==
    \A a \in DOMAIN analysis_results :
        \A j \in 1..Len(analysis_results[a].matches) :
            /\ analysis_results[a].matches[j].confidence \in 0..100
            /\ analysis_results[a].matches[j].status \in Statuses

\* the oracle's elements that name a ticket of the batch
KnownResults(results, issues) ==
    { i \in 1..Len(results) : results[i].ticket_key \in KeysOf(issues) }

\* C5: an oracle element whose ticket_key is no key of the batch yields no
\* MatchResult: every MatchResult refers to a ticket of the batch, there is one
\* per element that names a ticket of the batch, and the summary counts only those.
C5_UnknownTicketIgnored ==
    Analyzed =>
        LET issues == LastGroup.issues
            matches == LastAnalysis.matches
            summary == LastAnalysis.summary
            known == KnownResults(llm_results, issues)
            counted(status) ==
                Cardinality({ i \in known : llm_results[i].status = status })
        IN  /\ \A j \in 1..Len(matches) :
                \E i \in 1..Len(issues) : matches[j].ticket = issues[i]
            /\ Len(matches) = Cardinality(known)
            /\ summary.completed = counted("COMPLETED")
            /\ summary.likely_done = counted("LIKELY_DONE")
            /\ summary.in_progress = counted("IN_PROGRESS")
            /\ summary.pending = counted("PENDING")

\* the oracle named an unknown ticket beside a ticket of the batch
C5_Witness ==
    /\ Analyzed
    /\ outcome_kind = "array"
    /\ \E i \in 1..Len(llm_results) : llm_results[i].ticket_key = UnknownKey
    /\ Len(LastAnalysis.matches) = 1

\* an entry of matched_commits matches a commit of the batch
EntryMatches(entry, batch) ==
    entry.str /\ \E c \in 1..Len(batch) : Contains(entry.s, batch[c].sha)

\* a well-formed element for a ticket of the batch with an entry that matches
\* no commit
HasUnmatchedEntry(results, issues, batch) ==
    \E i \in 1..Len(results) :
        /\ results[i].obj
        /\ results[i].has = ResultFields
        /\ results[i].ticket_key \in KeysOf(issues)
        /\ \E e \in 1..Len(results[i].matched_commits) :
            ~EntryMatches(results[i].matched_commits[e], batch)

\* the oracle's elements that name a ticket of the batch, in the oracle's order
KnownSeq(results, issues) ==
    SelectSeq(results, LAMBDA r : r.ticket_key \in KeysOf(issues))
\* the entries of matched_commits that match a commit of the batch, in order
KeptEntries(entries, batch) ==
    SelectSeq(entries, LAMBDA e : EntryMatches(e, batch))

\* C6: an entry of matched_commits that matches no commit of the batch raises
\* nothing and is dropped; the entries that match are kept in the oracle's
\* order and total_matches is the number kept.
C6_UnmatchedEntryDropped ==
    /\ Raised => ~HasUnmatchedEntry(llm_results, RaisedIssues, commits)
    /\ Analyzed =>
        LET matches == LastAnalysis.matches
            known == KnownSeq(llm_results, LastGroup.issues)
        IN  \A j \in 1..Len(matches) :
                LET kept == KeptEntries(IF "matched_commits" \in known[j].has
                                        THEN known[j].matched_commits ELSE <<>>,
                                        commits)
                IN  /\ Len(matches[j].matched_commits) = Len(kept)
                    /\ matches[j].total_matches = Len(kept)
                    /\ \A m \in 1..Len(kept) :
                        /\ \E c \in 1..Len(commits) :
                              matches[j].matched_commits[m].commit = commits[c]
                        /\ Contains(kept[m].s, matches[j].matched_commits[m].commit.sha)

\* C7: for a project key that is absent from the Repository Map (or mapped to
\* an empty list), with any status filter, analyze_project returns exactly
\* {"error": "No repository mapping found for <key>"} and nothing else.
C7_NoMappingError ==
    (pc # "idle" /\ (project_key \notin DOMAIN JIRA_TO_GITHUB_MAP
                     \/ JIRA_TO_GITHUB_MAP[project_key] = <<>>)) =>
        /\ pc = "returned"
        /\ DOMAIN result = {"error"}
        /\ result.error = <<"No repository mapping found for ", project_key>>

\* analyze_project("ZZ", "active") has returned
C7_Witness ==
    /\ pc = "returned"
    /\ project_key = "ZZ"
    /\ status_filter = "active"
    /\ "error" \in DOMAIN result

\* the group of an assignee in the ticket grouping
GroupOf(a) == CHOOSE g \in 1..Len(assignee_issues) : assignee_issues[g].assignee = a
Analysed(a) == analysis_results[a].commits # <<>>

\* C8: an assignee with n >= 1 tickets and zero fetched commits is not sent to
\* the Matching Engine (no oracle call either), gets the summary
\* {n, 0, 0, 0, n, 0}, and the loop goes on with the next assignee.
C8_ZeroCommitsShortCircuit ==
    /\ \A a \in DOMAIN analysis_results :
        ~Analysed(a) =>
            LET n == Len(assignee_issues[GroupOf(a)].issues)
            IN  /\ n >= 1
                /\ analysis_results[a].matches = <<>>
                /\ analysis_results[a].summary =
                     [ total_tickets |-> n, completed |-> 0, likely_done |-> 0,
                       in_progress |-> 0, pending |-> n, total_commits |-> 0 ]
    /\ engine_calls = Cardinality({ a \in DOMAIN analysis_results : Analysed(a) })
                      + (IF Raised THEN 1 ELSE 0)
    /\ oracle_calls = (IF has_client THEN engine_calls ELSE 0)
    /\ (pc = "analyze" /\ commits = <<>>) => ENABLED ZeroCommits
    /\ (pc = "loop" /\ idx >= 1) =>
          DOMAIN analysis_results =
              { assignee_issues[g].assignee : g \in 1..(idx - 1) }

\* an assignee without commits was passed over and the next one was analysed
C8_Witness ==
    /\ pc = "returned"
    /\ Len(assignee_issues) = 2
    /\ DOMAIN analysis_results =
          { assignee_issues[1].assignee, assignee_issues[2].assignee }
    /\ ~Analysed(assignee_issues[1].assignee)
    /\ Analysed(assignee_issues[2].assignee)
    /\ engine_calls = 1

\* C9: with a repository mapping and zero tickets fetched, analyze_project
\* returns {"error": "No issues found"} and issues no commit fetch and no
\* oracle call.
C9_NoIssuesError ==
    (jira_calls > 0 /\ assignee_issues = <<>>) =>
        /\ pc = "returned"
        /\ DOMAIN result = {"error"}
        /\ result.error = <<"No issues found">>
        /\ github_calls = 0
        /\ engine_calls = 0
        /\ oracle_calls = 0

\* a mapped project whose ticket fetch gave nothing has returned
C9_Witness ==
    /\ pc = "returned"
    /\ project_key = "AL"
    /\ jira_calls = 1
    /\ assignee_issues = <<>>

\* C10: every value analyze_project returns is an error object or a
\* ProjectAnalysis with project_key, repositories, timestamp and an
\* AssigneeAnalysis (tickets, commits, matches, summary) for every assignee of
\* the ticket grouping.
C10_ErrorOrComplete ==
    pc = "returned" =>
        \/ DOMAIN result = {"error"}
        \/ /\ DOMAIN result =
                {"project_key", "repositories", "assignee_analysis", "timestamp"}
           /\ DOMAIN result.assignee_analysis =
                { assignee_issues[g].assignee : g \in 1..Len(assignee_issues) }
           /\ \A a \in DOMAIN result.assignee_analysis :
                DOMAIN result.assignee_analysis[a] =
                    {"tickets", "commits", "matches", "summary"}

\* a ProjectAnalysis for two assignees, one of them without commits
C10_Witness ==
    /\ pc = "returned"
    /\ "assignee_analysis" \in DOMAIN result
    /\ Cardinality(DOMAIN result.assignee_analysis) = 2
    /\ \E a \in DOMAIN result.assignee_analysis :
          result.assignee_analysis[a].commits = <<>>

\* the confidence band of a tier
Band(status) ==
    CASE status = "COMPLETED" -> 90..100
      [] status = "LIKELY_DONE" -> 60..89
      [] status = "IN_PROGRESS" -> 30..59
      [] status = "PENDING" -> 0..29
      [] OTHER -> {}

\* C17: every MatchResult analyze_project emits lies in the band of its tier:
\* COMPLETED 90..100, LIKELY_DONE 60..89, IN_PROGRESS 30..59, PENDING 0..29,
\* for results taken from the oracle and for fallback results.
C17_TierBands ==
    \A a \in DOMAIN analysis_results :
        \A j \in 1..Len(analysis_results[a].matches) :
            LET m == analysis_results[a].matches[j]
            IN  m.status \in Statuses => m.confidence \in Band(m.status)

\* the author filter attributes a commit to an assignee: the assignee has an
\* email and the commit's author email contains it
AuthoredBy(commit_data, assignee_email) ==
    /\ assignee_email # ""
    /\ Contains(Lower(assignee_email), Lower(commit_data.author_email))

\* the email analyze_project takes for a group: issues[0].get('assignee_email', '')
GroupEmail(group) == group.issues[1].assignee_email

\* C18: every commit handed to the Matching Engine for an assignee, and stored
\* in that assignee's AssigneeAnalysis, was authored by that assignee, also for
\* assignees known by display name only and for the "Unassigned" group.
C18_CommitsAuthoredByAssignee ==
    /\ (pc = "analyze" /\ commits # <<>>) =>
          \A c \in 1..Len(commits) :
              AuthoredBy(commits[c], GroupEmail(assignee_issues[idx]))
    /\ \A a \in DOMAIN analysis_results :
          \A c \in 1..Len(analysis_results[a].commits) :
              AuthoredBy(analysis_results[a].commits[c],
                         GroupEmail(assignee_issues[GroupOf(a)]))

\* C19: for a project key without repository mapping the error is returned
\* before any collaborator is used: no ticket-tracker query, no commit fetch,
\* no Matching Engine call and no oracle call is issued during that call.
C19_NoMappingNoCalls ==
    (pc # "idle" /\ MapGet(project_key) = <<>>) =>
        /\ pc = "returned"
        /\ jira_calls = 0
        /\ github_calls = 0
        /\ engine_calls = 0
        /\ oracle_calls = 0

\* the call for the unmapped key "ZZ" has returned its error with no call issued
C19_Witness ==
    /\ pc = "returned"
    /\ project_key = "ZZ"
    /\ result = NoMappingError("ZZ")
    /\ jira_calls + github_calls + engine_calls + oracle_calls = 0

\* the ticket fetch has answered
Fetched == jira_calls > 0 /\ pc \in {"loop", "returned"}

\* the tickets a tracker answer describes, each with its assignee
TicketsOf(response) ==
    IF response.kind = "text"
    THEN [ i \in 1..(Len(response.lines) - 1) |->
             [ key |-> response.lines[i + 1].key,
               assignee |->
                 IF response.lines[i + 1].name = "Unassigned" THEN NoAssignee
                 ELSE [ present |-> TRUE, emailAddress |-> "",
                        displayName |-> response.lines[i + 1].name ] ] ]
    ELSE response.issues

\* the assignee identity of a ticket: email, else display name, else "Unassigned"
Identity(assignee) ==
    IF ~assignee.present THEN "Unassigned"
    ELSE IF assignee.emailAddress # "" THEN assignee.emailAddress
    ELSE assignee.displayName

\* C15: every ticket of the grouping sits in the group of its assignee's
\* identity (email, else display name, else "Unassigned"); tickets without
\* assignee, from structured records or from text lines showing (Unassigned),
\* are all in the one group "Unassigned".
C15_GroupedByIdentity ==
    Fetched =>
        LET tickets == TicketsOf(jira_response)
        IN  \A g \in 1..Len(assignee_issues) :
                \A i \in 1..Len(assignee_issues[g].issues) :
                    \A t \in 1..Len(tickets) :
                        tickets[t].key = assignee_issues[g].issues[i].key =>
                            assignee_issues[g].assignee = Identity(tickets[t].assignee)

\* the answer cannot be parsed into tickets: malformed JSON, or a table with a
\* line that is no ticket line
Unparseable(response) ==
    \/ response.kind = "parse_error"
    \/ /\ response.kind = "text"
       /\ \E i \in 2..Len(response.lines) : ~Has(response.lines[i].tokens, ":")

\* C16: when the tracker's answer cannot be parsed, the ticket fetch fails as
\* a whole with an error the caller can tell apart from an empty result, and
\* no grouping is built from the lines that did parse.
C16_ParseErrorFailsFetch ==
    (Fetched /\ Unparseable(jira_response)) =>
        /\ assignee_issues = <<>>
        /\ pc = "returned"
        /\ "error" \in DOMAIN result
        /\ result # NoIssuesError

\* a lone get_commits_for_repos has returned
Queried == query # NoQuery

\* the repository at position i answered with a commit list
AnsweredList(q, i) ==
    /\ Len(SplitSlash[q.repo_full_names[i]]) = 2
    /\ q.responses[i].kind = "list"

\* the author email of commit c contains e, both lower-cased
EmailContains(e, c) ==
    LET low(x) == [k \in 1..Len(Chars[x]) |-> LowerChar(Chars[x][k])]
    IN  \E k \in 0..(Len(low(c.author_email)) - Len(low(e))) :
            \A m \in 1..Len(low(e)) : low(c.author_email)[k + m] = low(e)[m]

\* <<position, full sha>> of the commits of repositories i..n that answered
\* with a list and whose author email contains e, in list order
RECURSIVE ExpectedFrom(_, _)
ExpectedFrom(q, i) ==
    IF i > Len(q.repo_full_names) THEN <<>>
    ELSE (IF AnsweredList(q, i)
          THEN LET kept == SelectSeq(q.responses[i].commits,
                                     LAMBDA c : EmailContains(q.assignee_email, c))
               IN  [k \in 1..Len(kept) |->
                       <<q.repo_full_names[i], kept[k].sha, kept[k].author_email>>]
          ELSE <<>>)
         \o ExpectedFrom(q, i + 1)

\* C13: with a non-empty author email e, get_commits_for_repos returns exactly
\* the commits whose author email contains e (both lower-cased) of the
\* repositories that answered with a commit list, in repository order and,
\* within a repository, in the order of the answer.
C13_AuthorFilter ==
    (Queried /\ query.assignee_email # "") =>
        /\ [ j \in 1..Len(all_commits) |->
               << all_commits[j].full_name, all_commits[j].full_sha,
                  all_commits[j].author_email >> ] = ExpectedFrom(query, 1)
        /\ \A j \in 1..Len(all_commits) :
               EmailContains(query.assignee_email, all_commits[j])

\* the call filtered on "a@x.io" kept the commit of A@X.IO of two
\* repositories and dropped the commit of b@y.io
C13_Witness ==
    /\ Queried
    /\ query.assignee_email = "a@x.io"
    /\ Len(query.repo_full_names) = 2
    /\ query.responses[1].commits = <<CommitB, CommitA>>
    /\ query.responses[2].commits = <<CommitA>>
    /\ Len(all_commits) = 2
    /\ all_commits[1].full_name # all_commits[2].full_name

\* the repository at position i is skipped: identifier not owner/repo, tool
\* call raised, nothing returned, or an error text
Failing(q, i) == ~AnsweredList(q, i)

\* the positions of q that are not skipped, in order
Working(q) ==
    SelectSeq([i \in 1..Len(q.repo_full_names) |-> i], LAMBDA i : ~Failing(q, i))

\* C14: a repository that is skipped contributes no commit and does not end
\* the call: the result is the one of the same call on the other repositories
\* alone, wherever the skipped repository stands in the list.
C14_FailingRepoSkipped ==
    Queried =>
        LET w == Working(query)
        IN  all_commits =
              get_commits_for_repos(
                  [k \in 1..Len(w) |-> query.repo_full_names[w[k]]],
                  query.assignee_email,
                  [k \in 1..Len(w) |-> query.responses[w[k]]])

\* a call whose first repository raised and whose second one answered with a
\* commit that is in the result
C14_Witness ==
    /\ Queried
    /\ Len(query.repo_full_names) = 2
    /\ query.responses[1].kind = "raise"
    /\ Len(SplitSlash[query.repo_full_names[1]]) = 2
    /\ query.responses[2].kind = "list"
    /\ Len(all_commits) = 1
    /\ all_commits[1].full_name = query.repo_full_names[2]

\* a batch run
BatchSession == session_kind \in {"batch_api", "batch_script"}
\* an analyze_project call that raised or returned an error result
Failed(call) == call.outcome.raised \/ "error" \in DOMAIN call.outcome.value
\* the entry tells which project it is about: by the key it is stored under
\* or by a project_key field
CarriesKey(entry, key) ==
    \/ entry.at = key
    \/ "project_key" \in DOMAIN entry.value /\ entry.value.project_key = key
\* the keys of the iteration that are to be analysed
Due(key) == session_kind = "batch_script" \/ MapGet(key) # <<>>
InvokedKeys == [i \in 1..Len(invoked) |-> invoked[i].key]

\* C11: in a batch run, an analyze_project call that raises or returns an
\* error result leaves an entry in the output that carries both its project
\* key and the error, and the keys after it in the iteration are analysed
\* all the same.
C11_FailureIsolated ==
    BatchSession =>
        /\ \A i \in 1..Len(invoked) :
            Failed(invoked[i]) =>
                \E e \in 1..Len(all_results) :
                    /\ CarriesKey(all_results[e], invoked[i].key)
                    /\ "error" \in DOMAIN all_results[e].value
        /\ batch_idx >= 1 =>
              InvokedKeys = SelectSeq(SubSeq(batch_keys, 1, batch_idx - 1), Due)
        /\ (session_pc = "batch_loop" /\ batch_idx <= Len(batch_keys)) =>
              ENABLED BatchStep

\* C12: a batch run that finishes has invoked analyze_project exactly once
\* for every project key of the Repository Map, in map order, and its output
\* has exactly one entry for each of these keys.
C12_EveryMappedKeyOnce ==
    (BatchSession /\ session_pc = "returned") =>
        /\ InvokedKeys = BatchMapKeys
        /\ Len(all_results) = Len(BatchMapKeys)
        /\ \A k \in 1..Len(BatchMapKeys) :
              Cardinality({ e \in 1..Len(all_results) :
                              CarriesKey(all_results[e], BatchMapKeys[k]) }) = 1

\* the session is over: it returned or an exception left it
SessionEnded == session_pc \in {"returned", "raised"}

\* C20: in every session each of the two connections is opened at most once
\* and none is still open when the session is over, whether analyze_project
\* raised or returned an error; a failed release of one connection does not
\* keep the other one open.
C20_ConnectionsReleased ==
    /\ jira_opens <= 1
    /\ github_opens <= 1
    /\ SessionEnded => (jira_conn # "open" /\ github_conn # "open")

\* C21: when the processing of one assignee fails, analyze_project still
\* returns: no exception leaves it, and the entries of the assignees processed
\* before the failing one are in the ProjectAnalysis it hands back.
C21_AssigneeFailureIsolated ==
    /\ ~Raised
    /\ (pc = "returned" /\ "assignee_analysis" \in DOMAIN result) =>
          \A g \in 1..Len(assignee_issues) :
              assignee_issues[g].assignee \in DOMAIN result.assignee_analysis

\* the entries of matched_commits the element carries
EntriesOf(llm_result) ==
    IF "matched_commits" \in llm_result.has THEN llm_result.matched_commits ELSE <<>>

\* C23: resolving matched commits leaves the classification untouched: the
\* MatchResult of every oracle element that names a ticket of the batch has
\* the element's status, confidence and reasoning, whether all, some or none
\* of its matched_commits resolve.
C23_ClassificationUntouched ==
    Analyzed =>
        LET matches == LastAnalysis.matches
            known == KnownSeq(llm_results, LastGroup.issues)
        IN  /\ Len(matches) = Len(known)
            /\ \A j \in 1..Len(matches) :
                  /\ matches[j].status = known[j].status
                  /\ matches[j].confidence = known[j].confidence
                  /\ matches[j].reasoning = known[j].reasoning

\* the oracle classified a ticket on two short shas of which only one is a
\* commit of the batch, and one on a sha that is no commit at all
C23_Witness ==
    /\ Analyzed
    /\ outcome_kind = "array"
    /\ \E j \in 1..Len(LastAnalysis.matches) :
          LET known == KnownSeq(llm_results, LastGroup.issues)
          IN  /\ Len(EntriesOf(known[j])) = 2
              /\ LastAnalysis.matches[j].total_matches = 1
              /\ LastAnalysis.matches[j].status # "PENDING"
    /\ \E j \in 1..Len(LastAnalysis.matches) :
          LET known == KnownSeq(llm_results, LastGroup.issues)
          IN  /\ Len(EntriesOf(known[j])) = 1
              /\ LastAnalysis.matches[j].total_matches = 0
              /\ LastAnalysis.matches[j].status # "PENDING"

\* the entries of matched_commits that are the short sha of a commit of the
\* batch, in the oracle's order
NamedEntries(entries, batch) ==
    SelectSeq(entries, LAMBDA e : e.str /\ \E c \in 1..Len(batch) : batch[c].sha = e.s)

\* C24: every commit in a MatchResult's matched_commits is the commit the
\* oracle named, its short sha equal to the oracle's string; a string that is
\* the short sha of no commit of the batch resolves to no commit.
C24_ResolvedCommitIsNamed ==
    Analyzed =>
        LET matches == LastAnalysis.matches
            known == KnownSeq(llm_results, LastGroup.issues)
        IN  \A j \in 1..Len(matches) :
                LET named == NamedEntries(EntriesOf(known[j]), commits)
                IN  /\ Len(matches[j].matched_commits) = Len(named)
                    /\ \A m \in 1..Len(named) :
                          matches[j].matched_commits[m].commit.sha = named[m].s

\* C25: in every AssigneeAnalysis, on the zero-commit, the fallback and the
\* oracle path, the four counts of the summary add up to total_tickets, which
\* is the number of the assignee's tickets, and each count is the number of
\* MatchResults in matches with that status.
C25_SummaryAddsUp ==
    \A a \in DOMAIN analysis_results :
        LET summary == analysis_results[a].summary
            matches == analysis_results[a].matches
        IN  /\ summary.completed + summary.likely_done
                  + summary.in_progress + summary.pending = summary.total_tickets
            /\ summary.total_tickets = Len(assignee_issues[GroupOf(a)].issues)
            /\ summary.completed = CountStatus(matches, "COMPLETED")
            /\ summary.likely_done = CountStatus(matches, "LIKELY_DONE")
            /\ summary.in_progress = CountStatus(matches, "IN_PROGRESS")
            /\ summary.pending = CountStatus(matches, "PENDING")

\* the places (group, position) at which the grouping holds a ticket key
PlacesOf(key) ==
    { p \in (1..Len(assignee_issues)) \X (1..MaxTickets + 1) :
        /\ p[2] <= Len(assignee_issues[p[1]].issues)
        /\ assignee_issues[p[1]].issues[p[2]].key = key }

\* the position of a ticket key in the fetched list
PositionIn(issues, key) == CHOOSE t \in 1..Len(issues) : issues[t].key = key

\* C30: the grouping partitions the fetched tickets: every ticket record is in
\* exactly one group, no group is empty, the groups' sizes sum to the number
\* of fetched tickets, and within a group the tickets keep the tracker's order.
C30_GroupingPartitions ==
    Fetched =>
        LET issues == issues_data
            keys == KeysOf(issues)
        IN  /\ \A t \in 1..Len(issues) : Cardinality(PlacesOf(issues[t].key)) = 1
            /\ \A g \in 1..Len(assignee_issues) : assignee_issues[g].issues # <<>>
            /\ Cardinality(UNION { PlacesOf(k) : k \in keys }) = Len(issues)
            /\ \A g \in 1..Len(assignee_issues) :
                  LET group == assignee_issues[g].issues
                  IN  /\ \A i \in 1..Len(group) : group[i].key \in keys
                      /\ \A i, j \in 1..Len(group) :
                            i < j => PositionIn(issues, group[i].key)
                                        < PositionIn(issues, group[j].key)

\* the tracker answered with as many tickets as it can, all of one assignee,
\* and they share one group
C30_Witness ==
    /\ Fetched
    /\ jira_response.kind = "dict"
    /\ Len(jira_response.issues) = MaxTickets
    /\ Len(assignee_issues) = 1
    /\ Len(assignee_issues[1].issues) = MaxTickets

\* the tracker's answer describes zero tickets: an empty issue list, the
\* server's "No issues found matching the query.", or a table without lines
NoTickets(response) ==
    \/ response.kind = "dict" /\ response.issues = <<>>
    \/ /\ response.kind = "text"
       /\ Len(response.lines) = 1
       /\ response.lines[1].form \in {"header", "none"}

\* C27: analyze_project returns the "No issues found" error only when the
\* tracker really returned zero tickets; a failed tool call, an error message
\* of the tracker or an answer that cannot be parsed ends differently.
C27_NoIssuesOnlyWhenEmpty ==
    (jira_calls > 0 /\ pc = "returned" /\ result = NoIssuesError) =>
        NoTickets(jira_response)

\* the answer is a table of ticket lines as the server renders them
RenderedTable(response) ==
    /\ response.kind = "text"
    /\ response.lines[1].form = "header"
    /\ \A i \in 2..Len(response.lines) : response.lines[i].form # "broken"

\* the assignee display name a ticket record stands for
DisplayName(assignee) ==
    IF assignee.present THEN assignee.displayName ELSE "Unassigned"

\* C28: for a table of tickets rendered as "<key>: <summary> [<status>]
\* (<assignee>)" after the header, the parser yields exactly one ticket per
\* line, with the line's key, summary, status and assignee display name, also
\* when the summary holds ':', '[' or '('.
C28_TextTableRoundTrip ==
    (jira_calls > 0 /\ RenderedTable(jira_response)) =>
        LET lines == jira_response.lines
        IN  /\ Len(issues_data) = Len(lines) - 1
            /\ \A i \in 1..Len(issues_data) :
                  /\ issues_data[i].key = lines[i + 1].key
                  /\ issues_data[i].summary = lines[i + 1].summary
                  /\ issues_data[i].status = lines[i + 1].status
                  /\ DisplayName(issues_data[i].assignee) = lines[i + 1].name

\* C22: in every batch run a fixed delay lies between the end of one
\* project's analysis and the start of the next: every analyze_project call
\* that is followed by another one was followed by the delay, whether it
\* succeeded, returned an error or raised.
C22_DelayBetweenProjects ==
    BatchSession =>
        \A i \in 1..(Len(invoked) - 1) : invoked[i].slept

\* C26: every connection that was opened in a session, also by a
\* connect_clients that failed part-way, has been through its release when
\* the session is over.
C26_OpenedIsReleased ==
    SessionEnded =>
        /\ jira_opens > 0 => jira_conn \in {"released", "release_failed"}
        /\ github_opens > 0 => github_conn \in {"released", "release_failed"}

\* the project records of a listing: one per line of a listed project
RECURSIVE ListedProjects(_)
ListedProjects(lines) ==
    IF lines = <<>> THEN <<>>
    ELSE (IF Head(lines).form = "project"
          THEN << [key |-> Head(lines).key, name |-> Head(lines).name] >>
          ELSE <<>>)
         \o ListedProjects(Tail(lines))

\* C29: discover_jira_projects returns one {key, name} per project the tracker
\* listed, in order, and nothing else: from the text of a failed read no
\* project record is made.
C29_OnlyListedProjects ==
    projects_str # NotRead => jira_projects = ListedProjects(projects_str)

====
